---- MODULE Spec2Model ----
(***************************************************************************)
(* A model of the QForceACN keyword library (src/QForceACN.py): the        *)
(* session it holds (access_token, loginUrl, namespace), the keywords that *)
(* read and write it, and the record id extraction from the window URL.    *)
(*                                                                         *)
(* A Python str is a sequence of one-character strings, so that split,     *)
(* concatenation, urlencode and the regular expressions are computed and   *)
(* not assumed.  An Optional value is None (the empty tuple) or Some(v).   *)
(***************************************************************************)
EXTENDS Integers, Sequences, FiniteSets, TLC

\* access_token, loginUrl, namespace: the fields of the QForceACN instance.
\* url: urlparse of what window.get_url() gives.
\* last: the last keyword call and what it came to.
\* History, written by the keywords and read by the properties only:
\* authBase, the login URL stored by the last successful Authenticate;
\* authSinceRevoke, whether an Authenticate succeeded since the last Revoke
\* (or since __init__); lastSetNs, the argument of the last Set Vlocity
\* Namespace.
VARIABLES access_token, loginUrl, namespace, url, last,
          authBase, authSinceRevoke, lastSetNs

vars == <<access_token, loginUrl, namespace, url, last,
          authBase, authSinceRevoke, lastSetNs>>

\* The three fields of the QForceACN instance.
session == <<access_token, loginUrl, namespace>>

-----------------------------------------------------------------------------
(* Optional values and strings *)

None == <<>>
Some(v) == <<v>>

Lower == {"a","b","c","d","e","f","g","h","i","j","k","l","m",
          "n","o","p","q","r","s","t","u","v","w","x","y","z"}
Upper == {"A","B","C","D","E","F","G","H","I","J","K","L","M",
          "N","O","P","Q","R","S","T","U","V","W","X","Y","Z"}
Digit == {"0","1","2","3","4","5","6","7","8","9"}

\* The regular expression class [a-zA-Z0-9].
Alnum == Lower \cup Upper \cup Digit

\* The regular expression class [a-zA-Z0-9_].
AlnumUnderscore == Alnum \cup {"_"}

\* lit occurs in s at position i.
OccursAt(s, i, lit) ==
    /\ i >= 1
    /\ i + Len(lit) - 1 <= Len(s)
    /\ \A k \in 1..Len(lit) : s[i + k - 1] = lit[k]

\* The least member of a non-empty set of integers.
Min(S) == CHOOSE x \in S : \A y \in S : x <= y

\* str.find, 1-based: the first position of lit in s, 0 when there is none.
IndexOf(s, lit) ==
    LET hits == {i \in 1..Len(s) : OccursAt(s, i, lit)}
    IN  IF hits = {} THEN 0 ELSE Min(hits)

\* lit in s
Contains(s, lit) == IndexOf(s, lit) # 0

\* s.endswith(lit)
EndsWith(s, lit) ==
    /\ Len(lit) <= Len(s)
    /\ SubSeq(s, Len(s) - Len(lit) + 1, Len(s)) = lit

\* s.split(sep, 1)[0]: s up to the first sep, all of s when it holds none.
SplitHead(s, sep) ==
    LET at == IndexOf(s, sep)
    IN  IF at = 0 THEN s ELSE SubSeq(s, 1, at - 1)

\* The character of s at position i, "" past its ends.
CharAt(s, i) == IF i \in 1..Len(s) THEN s[i] ELSE ""

\* The length of the longest run of characters of class, from position i of s.
RunLen(s, i, class) ==
    LET stops == {j \in i..Len(s) : s[j] \notin class}
    IN  IF i > Len(s) THEN 0
        ELSE IF stops = {} THEN Len(s) - i + 1
        ELSE Min(stops) - i

\* The concatenation of the strings of a sequence.
RECURSIVE Concat(_)
Concat(ss) == IF ss = <<>> THEN <<>> ELSE Head(ss) \o Concat(Tail(ss))

-----------------------------------------------------------------------------
(* urllib.parse.urlencode of a dict of strings *)

\* The %XX escape of the characters of the model that quote_plus escapes.
PercentEncode(c) ==
    CASE c = "&" -> <<"%", "2", "6">>
      [] c = "/" -> <<"%", "2", "F">>
      [] c = ":" -> <<"%", "3", "A">>
      [] c = "=" -> <<"%", "3", "D">>
      [] c = "?" -> <<"%", "3", "F">>

\* quote_plus of one character: the unreserved ones stay, a space is a "+".
QuotePlusChar(c) ==
    IF c \in Alnum \cup {"_", ".", "-", "~"} THEN <<c>>
    ELSE IF c = " " THEN <<"+">>
    ELSE PercentEncode(c)

QuotePlus(s) == Concat([i \in 1..Len(s) |-> QuotePlusChar(s[i])])

\* A dict is the sequence of its <<key, value>> items, in insertion order.
RECURSIVE urlencode(_)
urlencode(params) ==
    IF params = <<>> THEN <<>>
    ELSE LET item == QuotePlus(params[1][1]) \o <<"=">> \o QuotePlus(params[1][2])
         IN  IF Len(params) = 1 THEN item
             ELSE item \o <<"&">> \o urlencode(Tail(params))

DictKeys(d) == {d[i][1] : i \in 1..Len(d)}

\* d[key] = value: replaces the value of a key in place, appends a new key.
DictSet(d, key, value) ==
    IF key \in DictKeys(d)
    THEN [i \in 1..Len(d) |-> IF d[i][1] = key THEN <<key, value>> ELSE d[i]]
    ELSE Append(d, <<key, value>>)

-----------------------------------------------------------------------------
(* The inputs of the keywords *)

\* Largest number of items of a params dict.
MaxParams == 1

ParamItems == { <<<<"k", "e", "y", "1">>, <<"v", "a", "l", "u", "e", "1">>>>, <<<<"k", "e", "y", "2">>, <<"a", " ", "b", "&", "c">>>> }

\* The sequences of at most n members of S.
RECURSIVE SeqsUpTo(_, _)
SeqsUpTo(S, n) ==
    IF n = 0 THEN {<<>>}
    ELSE LET shorter == SeqsUpTo(S, n - 1)
         IN  shorter \cup {Append(q, x) : q \in shorter, x \in S}

\* The dicts of at most MaxParams items: no key twice.
ParamDicts ==
    {d \in SeqsUpTo(ParamItems, MaxParams) :
        \A i, j \in 1..Len(d) : i # j => d[i][1] # d[j][1]}

\* Largest number of segments of a generated path, and of fields of a
\* generated query string.
MaxSegments == 2
MaxFields == 2

Segments == { <<"5", "0", "0">>, <<"a", "p", "e", "x">>, <<"a", "-", "b">>, <<"0", "0", "6", "0", "0", "0", "0", "0", "0", "0", "0", "0", "0", "0", "0", "A", "A", "A">>,
              <<"a", "1", "B", "2", "c", "3", "D", "4", "e", "5", "F", "6", "g", "7", "H", "8", "i", "9">>, <<"a", "b", "c", "d", "e", "f", "g", "h", "i", "j", "k", "l", "m", "n", "o">> }
QueryFields == { <<"i", "d", "=", "a", "0", "X", "1", "a", "0", "0", "0", "0", "0", "0", "B", "2", "c", "3", "D", "E", "F">>, <<"i", "d", "=", "h", "e", "l", "l", "o", "-", "w", "o", "r", "l", "d">>, <<"i", "d", "=">>,
                 <<"r", "e", "f", "=", "0", "0", "1", "x", "x", "0", "0", "0", "0", "0", "3", "D", "G", "b", "2">>, <<"x", "=", "5", "0", "0">>, <<"r", "e", "t", "U", "R", "L", "=", "a", "1", "B", "2", "c", "3", "D", "4", "e", "5", "F", "6", "g", "7", "H", "8", "i", "9">> }

\* "/" before every segment; no segment, no path.
JoinPath(segs) == Concat([i \in 1..Len(segs) |-> <<"/">> \o segs[i]])
\* "&" between the fields.
JoinQuery(fields) ==
    Concat([i \in 1..Len(fields) |->
              IF i = 1 THEN fields[i] ELSE <<"&">> \o fields[i]])

SegPaths == {JoinPath(q) : q \in SeqsUpTo(Segments, MaxSegments)}
Queries == {JoinQuery(q) : q \in SeqsUpTo(QueryFields, MaxFields)}

LightningPaths == { <<"/", "o", "n", "e", "/", "o", "n", "e", ".", "a", "p", "p">>, <<"/", "l", "i", "g", "h", "t", "n", "i", "n", "g", "/", "p", "a", "g", "e", "/", "h", "o", "m", "e">>,
                    <<"/", "l", "i", "g", "h", "t", "n", "i", "n", "g", "/", "r", "/", "A", "c", "c", "o", "u", "n", "t", "/", "0", "0", "1", "x", "x", "0", "0", "0", "0", "0", "3", "D", "G", "b", "2", "A", "A", "E", "/", "v", "i", "e", "w">>,
                    <<"/", "l", "i", "g", "h", "t", "n", "i", "n", "g", "/", "o", "/", "A", "c", "c", "o", "u", "n", "t", "/", "l", "i", "s", "t">>, <<"/", "l", "i", "g", "h", "t", "n", "i", "n", "g", "/", "|", "/", "A", "_", "b", "/", "x", "1", "-", "2">> }
Fragments == { <<>>, <<"/", "s", "O", "b", "j", "e", "c", "t", "/", "0", "0", "1", "x", "x", "0", "0", "0", "0", "0", "3", "D", "G", "b", "2", "A", "A", "E", "/", "v", "i", "e", "w">>, <<"/", "s", "O", "b", "j", "e", "c", "t", "/", "x", "-", "1">> }

\* urlparse of the window URL: Classic and Console pages, Lightning pages,
\* and the rest (Visualforce pages; URLs without a host, as about:blank).
Location(hostname, path, query, fragment) ==
    [hostname |-> hostname, path |-> path, query |-> query,
     fragment |-> fragment]
ClassicLocations ==
    {Location(Some(<<"n", "a", "1", ".", "s", "a", "l", "e", "s", "f", "o", "r", "c", "e", ".", "c", "o", "m">>), p, q, <<>>) :
        p \in SegPaths, q \in Queries}
LightningLocations ==
    {Location(Some(<<"a", "c", "m", "e", ".", "l", "i", "g", "h", "t", "n", "i", "n", "g", ".", "f", "o", "r", "c", "e", ".", "c", "o", "m">>), p, q, f) :
        p \in LightningPaths, q \in Queries, f \in Fragments}
OtherLocations ==
    {Location(Some(<<"c", ".", "n", "a", "1", ".", "v", "i", "s", "u", "a", "l", ".", "f", "o", "r", "c", "e", ".", "c", "o", "m">>), <<"/", "a", "p", "e", "x", "/", "P", "a", "g", "e">>, q, <<>>) :
        q \in Queries}
    \cup {Location(None, <<"b", "l", "a", "n", "k">>, q, <<>>) : q \in Queries}
Locations == ClassicLocations \cup LightningLocations \cup OtherLocations

\* The pages the session keywords are run on.
SessionLocations ==
    { Location(None, <<"b", "l", "a", "n", "k">>, <<>>, <<>>),
      Location(Some(<<"n", "a", "1", ".", "s", "a", "l", "e", "s", "f", "o", "r", "c", "e", ".", "c", "o", "m">>), <<"/", "0", "0", "6", "0", "0", "0", "0", "0", "0", "0", "0", "0", "0", "0", "0", "A", "A", "A">>, <<>>, <<>>) }

Schemes == { <<"h", "t", "t", "p", "s">> }
LoginHosts == { <<"n", "a", "1", ".", "s", "a", "l", "e", "s", "f", "o", "r", "c", "e", ".", "c", "o", "m">>, <<"m", "y", ".", "c", "o", "m", "p", "a", "n", "y", ".", "c", "o", "m">> }
LoginPaths == { <<>>, <<"/", "i", "g", "n", "o", "r", "e", "d", "/", "p", "a", "t", "h">> }
\* The loginUrl arguments: scheme://host[/path], with their parts.
LoginUrlArgs ==
    { [scheme |-> sc, host |-> h, path |-> p,
       loginUrl |-> sc \o <<":", "/", "/">> \o h \o p] :
        sc \in Schemes, h \in LoginHosts, p \in LoginPaths }
Tokens == { <<"t", "o", "k", "A">> }
Namespaces == { <<"v", "l", "o", "c", "i", "t", "y", "_", "i", "n", "s">>, <<"o", "m", "n", "i", "s", "t", "u", "d", "i", "o">> }
JsonBodies == { None, Some("body") }
\* effectiveDate: absent, a datetime, or a value that is no datetime.
EffectiveDates ==
    { None,
      Some([isDatetime |-> TRUE, year |-> 2023, month |-> 6, day |-> 11,
            hour |-> 10, minute |-> 7, second |-> 42]),
      Some([isDatetime |-> FALSE]) }
IntegrationProcedures == { <<"A", "p", "p", "l", "i", "c", "a", "t", "i", "o", "n", "_", "G", "r", "a", "n", "t", "M", "g", "m", "t">> }
DataRaptors == { <<"L", "o", "o", "k", "u", "p", "A", "c", "c", "o", "u", "n", "t", "s">> }
CalculationProcedures == { <<"C", "a", "l", "c", "T", "a", "x">> }

\* What the token request comes to: it cannot complete, its body is not
\* JSON, the JSON has no access_token, or it has one (of any JSON value).
AuthOutcomes == {"ConnectionError", "JSONDecodeError", "KeyError", "ok"}
\* What an API request comes to.
ApiOutcomes == {"ConnectionError", "JSONDecodeError", "ok"}

DOTCOM == <<".", "c", "o", "m">>
DEFAULT_NAMESPACE == <<"v", "l", "o", "c", "i", "t", "y", "_", "c", "m", "t">>

-----------------------------------------------------------------------------
(* The session keywords *)

\* The record of the last keyword call: its name and arguments, the
\* exception it raised ("" when it returned), the value it returned and
\* the HTTP request it issued; rule is the return statement of
\* get_record_id that gave the value.
Called(op, arg, raised, value, request) ==
    [op |-> op, arg |-> arg, raised |-> raised, value |-> value,
     request |-> request, rule |-> ""]

\* loginUrl.split('.com',1)[0] + '.com'
NormalizeLoginUrl(u) == SplitHead(u, DOTCOM) \o DOTCOM

TokenUrl(base) == base \o <<"/", "s", "e", "r", "v", "i", "c", "e", "s", "/", "o", "a", "u", "t", "h", "2", "/", "t", "o", "k", "e", "n">>

\* authenticate: self.loginUrl is assigned before the request is made,
\* self.access_token after the response was parsed.  arg.loginUrl is the
\* argument; arg.scheme, arg.host and arg.path are what it was made of.
authenticate(arg, outcome, token) ==
    \E base \in {NormalizeLoginUrl(arg.loginUrl)} :
    LET req == Some([method |-> "POST", url |-> TokenUrl(base), bearer |-> None])
    IN  /\ loginUrl' = Some(base)
        /\ IF outcome = "ok"
           THEN /\ access_token' = token
                /\ authBase' = Some(base)
                /\ authSinceRevoke' = TRUE
                /\ last' = Called("authenticate", arg, "", None, req)
           ELSE /\ last' = Called("authenticate", arg, outcome, None, req)
                /\ UNCHANGED <<access_token, authBase, authSinceRevoke>>
        /\ UNCHANGED <<namespace, url, lastSetNs>>

\* revoke, had it reset the login URL with the token.
revoke_resets_login ==
    /\ access_token' = None
    /\ loginUrl' = None
    /\ authSinceRevoke' = FALSE
    /\ last' = Called("revoke", None, "", None, None)
    /\ UNCHANGED <<namespace, url, authBase, lastSetNs>>

\* revoke, had it reset the whole session to that of __init__.
revoke_resets_namespace ==
    /\ access_token' = None
    /\ namespace' = DEFAULT_NAMESPACE
    /\ authSinceRevoke' = FALSE
    /\ last' = Called("revoke", None, "", None, None)
    /\ UNCHANGED <<loginUrl, url, authBase, lastSetNs>>

\* revoke: resets the access token, nothing else.
revoke ==
    /\ access_token' = None
    /\ authSinceRevoke' = FALSE
    /\ last' = Called("revoke", None, "", None, None)
    /\ UNCHANGED <<loginUrl, namespace, url, authBase, lastSetNs>>

get_vlocity_namespace ==
    /\ last' = Called("get_vlocity_namespace", None, "", Some(namespace), None)
    /\ UNCHANGED <<access_token, loginUrl, namespace, url,
                   authBase, authSinceRevoke, lastSetNs>>

set_vlocity_namespace(ns) ==
    /\ namespace' = ns
    /\ lastSetNs' = Some(ns)
    /\ last' = Called("set_vlocity_namespace", ns, "", None, None)
    /\ UNCHANGED <<access_token, loginUrl, url, authBase, authSinceRevoke>>

-----------------------------------------------------------------------------
(* The API invokers *)

DigitChars == <<"0", "1", "2", "3", "4", "5", "6", "7", "8", "9">>
Pad2(n) == <<DigitChars[((n \div 10) % 10) + 1], DigitChars[(n % 10) + 1]>>
Pad4(n) == Pad2(n \div 100) \o Pad2(n % 100)

\* effectiveDate.strftime("%Y-%m-%d %H:%M:%S")
strftime(d) ==
    Pad4(d.year) \o <<"-">> \o Pad2(d.month) \o <<"-">> \o Pad2(d.day) \o <<" ">>
    \o Pad2(d.hour) \o <<":">> \o Pad2(d.minute) \o <<":">> \o Pad2(d.second)

\* The request URL the three invokers build: loginUrl, the apexrest prefix,
\* the namespace, the resource, the name and "?" with the encoded params.
RequestUrl(resource, name, params) ==
    loginUrl[1] \o <<"/", "s", "e", "r", "v", "i", "c", "e", "s", "/", "a", "p", "e", "x", "r", "e", "s", "t", "/">> \o namespace \o resource \o name
    \o <<"?">> \o urlencode(params)

\* The invokers, had the header been built with str(self.access_token): no
\* TypeError, and a request with "Bearer None".
Invoke_any_token(op, arg, resource, name, params, outcome) ==
    /\ IF loginUrl = None
       THEN last' = Called(op, arg, "TypeError", None, None)
       ELSE \E requestUrl \in {RequestUrl(resource, name, params)} :
            LET req == Some([method |-> "GET", url |-> requestUrl,
                             bearer |-> access_token])
            IN  IF outcome = "ok"
                THEN last' = Called(op, arg, "", Some("json"), req)
                ELSE last' = Called(op, arg, outcome, None, req)
    /\ UNCHANGED <<access_token, loginUrl, namespace, url,
                   authBase, authSinceRevoke, lastSetNs>>

\* What the three invokers share.  'Bearer ' + self.access_token raises a
\* TypeError when the token is None, and so does None + '/services/...'
\* when the login URL is; both come before the request.  Otherwise one GET
\* is made, and its JSON body returned unless the call or the parse fails.
Invoke(op, arg, resource, name, params, outcome) ==
    /\ IF access_token = None \/ loginUrl = None
       THEN last' = Called(op, arg, "TypeError", None, None)
       ELSE \E requestUrl \in {RequestUrl(resource, name, params)} :
            LET req == Some([method |-> "GET", url |-> requestUrl,
                             bearer |-> access_token])
            IN  IF outcome = "ok"
                THEN last' = Called(op, arg, "", Some("json"), req)
                ELSE last' = Called(op, arg, outcome, None, req)
    /\ UNCHANGED <<access_token, loginUrl, namespace, url,
                   authBase, authSinceRevoke, lastSetNs>>

\* execute_integration_procedure: params is the **params dict, never None,
\* so the query string is always appended.
execute_integration_procedure(type_subtype, json, params, outcome) ==
    Invoke("execute_integration_procedure",
           [name |-> type_subtype, json |-> json, params |-> params],
           <<"/", "v", "1", "/", "i", "n", "t", "e", "g", "r", "a", "t", "i", "o", "n", "p", "r", "o", "c", "e", "d", "u", "r", "e", "/">>, type_subtype, params, outcome)

execute_dataraptor(bundleName, params, outcome) ==
    Invoke("execute_dataraptor", [name |-> bundleName, params |-> params],
           <<"/", "v", "2", "/", "D", "a", "t", "a", "R", "a", "p", "t", "o", "r", "/">>, bundleName, params, outcome)

\* execute_calculation_procedure: an effectiveDate that is a datetime is
\* formatted into params['effectiveDate']; any other is ignored.
execute_calculation_procedure(configName, effectiveDate, params, outcome) ==
    Invoke("execute_calculation_procedure",
           [name |-> configName, effectiveDate |-> effectiveDate,
            params |-> params],
           <<"/", "v", "1", "/", "c", "a", "l", "c", "u", "l", "a", "t", "e", "/">>, configName,
           IF effectiveDate # None /\ effectiveDate[1].isDatetime
           THEN DictSet(params, <<"e", "f", "f", "e", "c", "t", "i", "v", "e", "D", "a", "t", "e">>, strftime(effectiveDate[1]))
           ELSE params,
           outcome)

-----------------------------------------------------------------------------
(* The record id extractor *)

\* The members of a set of integers, in increasing order.
Sorted(S) ==
    [k \in 1..Cardinality(S) |->
        CHOOSE x \in S : Cardinality({y \in S : y < x}) = k - 1]

\* s.split(c) for a one-character separator c.
Split(s, c) ==
    LET cuts == Sorted({i \in 1..Len(s) : s[i] = c})
        from(k) == IF k = 1 THEN 1 ELSE cuts[k - 1] + 1
        to(k) == IF k = Len(cuts) + 1 THEN Len(s) ELSE cuts[k] - 1
    IN  [k \in 1..(Len(cuts) + 1) |-> SubSeq(s, from(k), to(k))]

\* s.replace('+', ' '), the part of unquote that the URLs of the model need
\* (they hold no %XX escape).
PlusToSpace(s) == [i \in 1..Len(s) |-> IF s[i] = "+" THEN " " ELSE s[i]]

\* One step of parse_qs: the value joins the list of its key, a new key
\* comes last.
DictAppend(d, key, value) ==
    IF key \in DictKeys(d)
    THEN [i \in 1..Len(d) |->
            IF d[i][1] = key THEN <<key, Append(d[i][2], value)>> ELSE d[i]]
    ELSE Append(d, <<key, <<value>>>>)

\* parse_qs over the fields "name=value" of a query string: a field with
\* no "=" or with an empty value is dropped (keep_blank_values is False).
RECURSIVE ParseFields(_, _)
ParseFields(fields, d) ==
    IF fields = <<>> THEN d
    ELSE LET f  == Head(fields)
             eq == IndexOf(f, <<"=">>)
         IN  IF eq = 0 \/ eq = Len(f)
             THEN ParseFields(Tail(fields), d)
             ELSE ParseFields(Tail(fields),
                              DictAppend(d, PlusToSpace(SubSeq(f, 1, eq - 1)),
                                         PlusToSpace(SubSeq(f, eq + 1, Len(f)))))

parse_qs(query) == ParseFields(Split(query, "&"), <<>>)

\* search_params.get(key): the list of the values of key, None without it.
DictGet(d, key) ==
    IF key \in DictKeys(d)
    THEN d[CHOOSE i \in 1..Len(d) : d[i][1] = key][2]
    ELSE None

\* The lengths of an id: {3}, {15} and {18}, in the order of the pattern.
ID_LENGTHS == <<3, 15, 18>>

\* r"\/([a-zA-Z0-9]{3}|[a-zA-Z0-9]{15}|[a-zA-Z0-9]{18})(?:\/|$)" tried at
\* position i of p: the length of group 1, 0 when it does not match there.
\* The first alternative that is followed by "/" or the end is taken.
ClassicMatchAt(p, i) ==
    LET run  == RunLen(p, i + 1, Alnum)
        fits == SelectSeq(ID_LENGTHS,
                          LAMBDA n : run >= n /\ CharAt(p, i + n + 1) \in {"/", ""})
    IN  IF CharAt(p, i) = "/" /\ fits # <<>> THEN fits[1] ELSE 0

\* re.search of that pattern in p: group 1 of the leftmost match.
ClassicSearch(p) ==
    LET hits == {i \in 1..Len(p) : ClassicMatchAt(p, i) # 0}
    IN  IF hits = {} THEN None
        ELSE Some(SubSeq(p, Min(hits) + 1, Min(hits) + ClassicMatchAt(p, Min(hits))))

\* The test of the Classic match, had it been left out.
ClassicAccept_any(res) == TRUE

\* "0000" in res or len(res) == 3
ClassicAccept(res) == Contains(res, <<"0", "0", "0", "0">>) \/ Len(res) = 3

S_OBJECT == <<"/", "s", "O", "b", "j", "e", "c", "t", "/">>

\* r"\/sObject\/([a-zA-Z0-9]+)(?:\/|$)" tried at position i of f: the
\* length of group 1 (the whole run, which "/" or the end must follow).
SObjectMatchAt(f, i) ==
    LET at  == i + Len(S_OBJECT)
        run == RunLen(f, at, Alnum)
    IN  IF OccursAt(f, i, S_OBJECT) /\ run >= 1 /\ CharAt(f, at + run) \in {"/", ""}
        THEN run ELSE 0

SObjectSearch(f) ==
    LET hits == {i \in 1..Len(f) : SObjectMatchAt(f, i) # 0}
    IN  IF hits = {} THEN None
        ELSE Some(SubSeq(f, Min(hits) + Len(S_OBJECT),
                         Min(hits) + Len(S_OBJECT) + SObjectMatchAt(f, Min(hits)) - 1))

LIGHTNING == <<"/", "l", "i", "g", "h", "t", "n", "i", "n", "g", "/">>

\* r"\/lightning\/[r|o]\/[a-zA-Z0-9_]+\/([a-zA-Z0-9]+)" tried at position i
\* of p: <<start, length>> of group 1, <<0, 0>> when it does not match.  The
\* class [r|o] holds "|" too; nothing has to follow the group.
LightningMatchAt(p, i) ==
    LET kind == i + Len(LIGHTNING)
        name == kind + 2
        nrun == RunLen(p, name, AlnumUnderscore)
        id   == name + nrun + 1
        run  == RunLen(p, id, Alnum)
    IN  IF /\ OccursAt(p, i, LIGHTNING)
           /\ CharAt(p, kind) \in {"r", "|", "o"}
           /\ CharAt(p, kind + 1) = "/"
           /\ nrun >= 1
           /\ CharAt(p, name + nrun) = "/"
           /\ run >= 1
        THEN <<id, run>> ELSE <<0, 0>>

LightningSearch(p) ==
    LET hits == {i \in 1..Len(p) : LightningMatchAt(p, i)[2] # 0}
        m    == LightningMatchAt(p, Min(hits))
    IN  IF hits = {} THEN None ELSE Some(SubSeq(p, m[1], m[1] + m[2] - 1))

\* re.match(r"^([a-zA-Z0-9]{3}|[a-zA-Z0-9]{15}|[a-zA-Z0-9]{18})$", v), for a
\* v that ends in no line break.
IdShape(v) ==
    /\ \E k \in 1..Len(ID_LENGTHS) : Len(v) = ID_LENGTHS[k]
    /\ \A i \in 1..Len(v) : v[i] \in Alnum

\* The loop over search_params.values(): the first value of the first key
\* whose first value has the shape of an id and holds "0000".
ScanValues(search_params) ==
    LET hits == {i \in 1..Len(search_params) :
                    /\ IdShape(search_params[i][2][1])
                    /\ Contains(search_params[i][2][1], <<"0", "0", "0", "0">>)}
    IN  IF hits = {} THEN None ELSE Some(search_params[Min(hits)][2][1])

Return(rule, v) == [raised |-> "", value |-> Some(v), rule |-> rule]
Raise(e) == [raised |-> e, value |-> None, rule |-> ""]

\* What get_record_id comes to on the parsed window URL u, with the return
\* statement that gave the value.  A URL without a host has hostname None,
\* and None.endswith raises an AttributeError.
RecordIdOf(u) ==
    IF u.hostname = None THEN Raise("AttributeError")
    ELSE LET hostname      == u.hostname[1]
             search_params == parse_qs(u.query)
             classic   == IF EndsWith(hostname, <<".", "s", "a", "l", "e", "s", "f", "o", "r", "c", "e", ".", "c", "o", "m">>)
                          THEN ClassicSearch(u.path) ELSE None
             lightning == IF EndsWith(hostname, <<".", "l", "i", "g", "h", "t", "n", "i", "n", "g", ".", "f", "o", "r", "c", "e", ".", "c", "o", "m">>)
                          THEN IF u.path = <<"/", "o", "n", "e", "/", "o", "n", "e", ".", "a", "p", "p">>
                               THEN SObjectSearch(u.fragment)
                               ELSE LightningSearch(u.path)
                          ELSE None
             id_param  == DictGet(search_params, <<"i", "d">>)
             scan      == ScanValues(search_params)
         IN  IF classic # None /\ ClassicAccept(classic[1])
                THEN Return("classic", classic[1])
             ELSE IF lightning # None THEN Return("lightning", lightning[1])
             ELSE IF id_param # <<>> THEN Return("id", id_param[1])
             ELSE IF scan # None THEN Return("scan", scan[1])
             ELSE Raise("Exception")

\* get_record_id: reads the window URL, writes nothing.
get_record_id ==
    /\ \E r \in {RecordIdOf(url)} :
         last' = [Called("get_record_id", None, r.raised, r.value, None)
                    EXCEPT !.rule = r.rule]
    /\ UNCHANGED <<access_token, loginUrl, namespace, url,
                   authBase, authSinceRevoke, lastSetNs>>

-----------------------------------------------------------------------------

\* __init__
InitSession ==
    /\ access_token = None
    /\ loginUrl = None
    /\ namespace = DEFAULT_NAMESPACE
    /\ last = Called("__init__", None, "", None, None)
    /\ authBase = None
    /\ authSinceRevoke = FALSE
    /\ lastSetNs = None

Init ==
    /\ InitSession
    /\ url \in SessionLocations

Authenticate ==
    \E arg \in LoginUrlArgs, outcome \in AuthOutcomes,
       token \in {Some(t) : t \in Tokens} \cup {None} :
        /\ (outcome # "ok" => token = None)
        /\ authenticate(arg, outcome, token)

Revoke == revoke

GetVlocityNamespace == get_vlocity_namespace

SetVlocityNamespace == \E ns \in Namespaces : set_vlocity_namespace(ns)

ExecuteIntegrationProcedure ==
    \E name \in IntegrationProcedures, json \in JsonBodies, params \in ParamDicts,
       outcome \in ApiOutcomes :
        execute_integration_procedure(name, json, params, outcome)

ExecuteDataRaptor ==
    \E name \in DataRaptors, params \in ParamDicts, outcome \in ApiOutcomes :
        execute_dataraptor(name, params, outcome)

ExecuteCalculationProcedure ==
    \E name \in CalculationProcedures, date \in EffectiveDates, params \in ParamDicts,
       outcome \in ApiOutcomes :
        execute_calculation_procedure(name, date, params, outcome)

GetRecordId == get_record_id

Next ==
    \/ Authenticate
    \/ Revoke
    \/ GetVlocityNamespace
    \/ SetVlocityNamespace
    \/ ExecuteIntegrationProcedure
    \/ ExecuteDataRaptor
    \/ ExecuteCalculationProcedure
    \/ GetRecordId

Spec == Init /\ [][Next]_vars

\* The extractor alone, on every window URL of the model.
InitUrl ==
    /\ InitSession
    /\ url \in Locations

NextUrl == GetRecordId

SpecUrl == InitUrl /\ [][NextUrl]_vars

-----------------------------------------------------------------------------
(* The properties *)

ExecuteOps == {"execute_integration_procedure", "execute_dataraptor",
               "execute_calculation_procedure"}

\* The namespace the Set Vlocity Namespace calls so far ask for.
ExpectedNamespace == IF lastSetNs = None THEN DEFAULT_NAMESPACE ELSE lastSetNs[1]

\* The host of the window URL ends with suffix.
HostEndsWith(u, suffix) == u.hostname # None /\ EndsWith(u.hostname[1], suffix)

\* The segments of a path: what stands between its "/".
PathSegments(p) == {Split(p, "/")[k] : k \in 1..Len(Split(p, "/"))}
LastSegment(p) == Split(p, "/")[Len(Split(p, "/"))]

\* C1: when Revoke follows a successful Authenticate at once, the token is
\* absent and the login URL is still the normalized login URL that
\* Authenticate stored; a Revoke changes nothing but the token.
C1_RevokeClearsOnlyToken ==
    [][ /\ (last.op = "authenticate" /\ last.raised = "" /\ last'.op = "revoke")
           => /\ access_token' = None
              /\ loginUrl' = Some(NormalizeLoginUrl(last.arg.loginUrl))
        /\ (last.op # "revoke" /\ last'.op = "revoke")
           => /\ access_token' = None
              /\ loginUrl' = loginUrl
              /\ namespace' = namespace ]_vars

\* A Revoke has acted on a session that a successful Authenticate set up:
\* the token is gone, the login URL of that Authenticate is still there.
C1_Witness ==
    /\ last.op = "revoke"
    /\ access_token = None
    /\ authBase # None
    /\ loginUrl = authBase

\* C2: a failed Authenticate leaves the bearer token, the base login URL and
\* the namespace as they were before the call.
C2_FailedAuthenticateKeepsSession ==
    [][ (last'.op = "authenticate" /\ last'.raised # "")
           => session' = session ]_vars

\* C3: with no token, every API invocation fails before it issues a request
\* and returns nothing; the token is absent whenever no Authenticate has
\* succeeded since the last Revoke, so an invocation returns a result only
\* after such an Authenticate.
C3_NoTokenNoRequest ==
    /\ (~authSinceRevoke => access_token = None)
    /\ (last.op \in ExecuteOps /\ access_token = None)
          => /\ last.raised # ""
             /\ last.request = None
             /\ last.value = None
    /\ (last.op \in ExecuteOps /\ last.value # None) => authSinceRevoke

\* An invoker has failed with the TypeError on a session that was
\* authenticated and then revoked.
C3_Witness ==
    /\ last.op = "execute_calculation_procedure"
    /\ authBase # None
    /\ ~authSinceRevoke
    /\ last.raised = "TypeError"

\* C4: for a loginUrl scheme://host[/path] whose host ends with ".com",
\* Authenticate stores exactly scheme://host and requests the token at
\* scheme://host/services/oauth2/token.
C4_BaseIsSchemeAndHost ==
    (last.op = "authenticate" /\ EndsWith(last.arg.host, DOTCOM))
       => /\ loginUrl = Some(last.arg.scheme \o <<":", "/", "/">> \o last.arg.host)
          /\ last.request[1].url =
                last.arg.scheme \o <<":", "/", "/">> \o last.arg.host
                \o <<"/", "s", "e", "r", "v", "i", "c", "e", "s", "/", "o", "a", "u", "t", "h", "2", "/", "t", "o", "k", "e", "n">>

\* C5: on a host ending with ".salesforce.com", a path whose last segment is
\* 18 alphanumeric characters with "0000" in them gives that segment,
\* whatever segments precede it.
C5_LastSegmentReturned ==
    (/\ last.op = "get_record_id"
     /\ HostEndsWith(url, <<".", "s", "a", "l", "e", "s", "f", "o", "r", "c", "e", ".", "c", "o", "m">>)
     /\ url.path # <<>>
     /\ Len(LastSegment(url.path)) = 18
     /\ \A i \in 1..18 : LastSegment(url.path)[i] \in Alnum
     /\ Contains(LastSegment(url.path), <<"0", "0", "0", "0">>))
       => last.value = Some(LastSegment(url.path))

\* No rule of the extractor has a match on the window URL u.
NoRuleMatches(u) ==
    /\ ~(/\ HostEndsWith(u, <<".", "s", "a", "l", "e", "s", "f", "o", "r", "c", "e", ".", "c", "o", "m">>)
         /\ ClassicSearch(u.path) # None
         /\ ClassicAccept(ClassicSearch(u.path)[1]))
    /\ ~(/\ HostEndsWith(u, <<".", "l", "i", "g", "h", "t", "n", "i", "n", "g", ".", "f", "o", "r", "c", "e", ".", "c", "o", "m">>)
         /\ IF u.path = <<"/", "o", "n", "e", "/", "o", "n", "e", ".", "a", "p", "p">>
            THEN SObjectSearch(u.fragment) # None
            ELSE LightningSearch(u.path) # None)
    /\ DictGet(parse_qs(u.query), <<"i", "d">>) = None
    /\ ScanValues(parse_qs(u.query)) = None

\* C6: on a window URL on which no rule has a match, Get Record Id fails
\* with the "record id not found" error and returns no value.
C6_NoMatchIsNotFound ==
    (last.op = "get_record_id" /\ NoRuleMatches(url))
       => last.raised = "Exception" /\ last.value = None

\* C7: every value Get Record Id returns is alphanumeric and of length 3,
\* 15 or 18.
C7_ResultIsRecordId ==
    (last.op = "get_record_id" /\ last.value # None) => IdShape(last.value[1])

\* C8: with a token present, Execute DataRaptor requests the login URL of
\* the most recent successful Authenticate, then /services/apexrest/, the
\* namespace of the most recent Set Vlocity Namespace (the default without
\* one), /v2/DataRaptor/, the bundle name, "?" and the encoded params.
C8_DataRaptorUrl ==
    (last.op = "execute_dataraptor" /\ access_token # None)
       => /\ last.request # None
          /\ last.request[1].url =
                authBase[1] \o <<"/", "s", "e", "r", "v", "i", "c", "e", "s", "/", "a", "p", "e", "x", "r", "e", "s", "t", "/">> \o ExpectedNamespace
                \o <<"/", "v", "2", "/", "D", "a", "t", "a", "R", "a", "p", "t", "o", "r", "/">> \o last.arg.name \o <<"?">>
                \o urlencode(last.arg.params)

\* C9: the namespace is that of the most recent Set Vlocity Namespace, the
\* default before the first, whatever other keywords ran in between; Get
\* Vlocity Namespace returns it; and Set Vlocity Namespace leaves the token
\* and the login URL as they were.
C9_NamespaceIndependent ==
    /\ namespace = ExpectedNamespace
    /\ [][ /\ namespace' = ExpectedNamespace'
           /\ (last'.op = "get_vlocity_namespace"
                 => last'.value = Some(ExpectedNamespace'))
           /\ (last'.op = "set_vlocity_namespace"
                 => /\ access_token' = access_token
                    /\ loginUrl' = loginUrl
                    /\ namespace' = last'.arg) ]_vars

\* Get Vlocity Namespace has returned the namespace that was set, on a
\* session that was authenticated and revoked since.
C9_Witness ==
    /\ last.op = "get_vlocity_namespace"
    /\ lastSetNs # None
    /\ last.value = lastSetNs
    /\ authBase # None
    /\ access_token = None

\* The values of the query parameters that come first for their name, in
\* the order of the names.
FirstValues(query) ==
    [i \in 1..Len(parse_qs(query)) |-> parse_qs(query)[i][2][1]]

\* C10: on a host ending with ".salesforce.com", the value comes from the
\* path only if it is a segment that holds "0000" or has length 3; in
\* every other case the result is that of the later rules: the first "id"
\* parameter, else the first parameter value of the id shape with "0000",
\* else the not-found error.
C10_ClassicFallsThrough ==
    (last.op = "get_record_id" /\ HostEndsWith(url, <<".", "s", "a", "l", "e", "s", "f", "o", "r", "c", "e", ".", "c", "o", "m">>))
       => LET firsts == FirstValues(url.query)
              ids    == {i \in 1..Len(firsts) : parse_qs(url.query)[i][1] = <<"i", "d">>}
              good   == {i \in 1..Len(firsts) :
                            /\ Len(firsts[i]) \in {3, 15, 18}
                            /\ \A k \in 1..Len(firsts[i]) : firsts[i][k] \in Alnum
                            /\ Contains(firsts[i], <<"0", "0", "0", "0">>)}
          IN  IF last.rule = "classic"
              THEN /\ last.value[1] \in PathSegments(url.path)
                   /\ (Contains(last.value[1], <<"0", "0", "0", "0">>) \/ Len(last.value[1]) = 3)
              ELSE IF ids # {}
              THEN \E i \in ids : last.value = Some(firsts[i])
              ELSE IF good # {}
              THEN \E i \in good :
                      /\ last.value = Some(firsts[i])
                      /\ \A j \in good : i <= j
              ELSE last.raised = "Exception" /\ last.value = None

\* The path of a Classic page has an 18-character segment without "0000"
\* as its first candidate, and the value came from the query-value scan.
C10_Witness ==
    /\ last.op = "get_record_id"
    /\ HostEndsWith(url, <<".", "s", "a", "l", "e", "s", "f", "o", "r", "c", "e", ".", "c", "o", "m">>)
    /\ ClassicSearch(url.path) # None
    /\ Len(ClassicSearch(url.path)[1]) = 18
    /\ ~Contains(ClassicSearch(url.path)[1], <<"0", "0", "0", "0">>)
    /\ last.rule = "scan"

====
